---- MODULE Spec2Model ----
(***************************************************************************)
(* Search subsystem of the documentation viewer (src/script.js): the index *)
(* build (buildSearchIndex, started by showDocs), the query ranker         *)
(* (performSearch) and the term highlighter (highlightSearchTerms).        *)
(*                                                                         *)
(* A JavaScript string is modelled as a sequence of one-character strings, *)
(* so that toLowerCase, includes, startsWith, split, slice and replace are *)
(* computed as the code computes them.                                     *)
(***************************************************************************)
EXTENDS Integers, Sequences, FiniteSets, TLC

VARIABLES
    searchIndex,          \* script.js:467  let searchIndex = []
    isSearchIndexBuilt,   \* script.js:468  let isSearchIndexBuilt = false
    shows,                \* showDocs calls: each one's position (script.js:33-69)
    builds,               \* buildSearchIndex calls: position, filesToIndex, loop index,
                          \* and (history) the loop indexes whose fetch succeeded
    navs,                 \* navigateTo calls: target file and position (script.js:388-423)
    content,              \* what the #content element shows
    lastQuery,            \* the query of the latest input event (script.js:731-742)
    lastResults,          \* what performSearch returned for it
    panel,                \* the #searchResults element (script.js:729)
    inputs,               \* the number of input events so far
    hl,                   \* the latest highlightSearchTerms call and its outcome
    manifest,             \* the manifest.json the server holds
    page,                 \* the rendered document an indexing pass was given
    jumps,                \* navigateToResult calls: target, position, lookup outcome
                          \* (script.js:666-725)
    scroll                \* the top of the latest window.scrollTo request

vars == <<searchIndex, isSearchIndexBuilt, shows, builds, navs, content,
          lastQuery, lastResults, panel, inputs, hl, manifest, page, jumps, scroll>>

(***************************************************************************)
(* Bounds of the model.                                                    *)
(***************************************************************************)
MaxShowDocs == 2        \* showDocs calls in one session
MaxInputs == 1          \* input events on the search box
MaxQueryLen == 5        \* characters of a query given to performSearch
MaxHighlightLen == 3    \* characters of a query given to highlightSearchTerms
MaxBlocks == 3          \* blocks of a document given to the indexing pass
MaxHeadingLen == 3      \* characters of a heading text given to the indexing pass
MaxJumps == 2           \* navigateToResult calls in a session
MaxSearches == 2        \* performSearch calls on one index

(***************************************************************************)
(* Program constants.                                                      *)
(***************************************************************************)
MinQueryLength == 2
MaxResults == 10
SnippetLength == 300
LongParagraph == 100

Min(a, b) == IF a < b THEN a ELSE b

(***************************************************************************)
(* Strings.                                                                *)
(***************************************************************************)
UpperCase == <<"A", "B", "C", "D", "E", "F", "G", "H", "I", "J", "K", "L", "M",
               "N", "O", "P", "Q", "R", "S", "T", "U", "V", "W", "X", "Y", "Z">>

LowerCase == <<"a", "b", "c", "d", "e", "f", "g", "h", "i", "j", "k", "l", "m",
               "n", "o", "p", "q", "r", "s", "t", "u", "v", "w", "x", "y", "z">>

Digits == <<"0", "1", "2", "3", "4", "5", "6", "7", "8", "9">>

LowerOf ==
    [c \in {UpperCase[i] : i \in DOMAIN UpperCase} |->
        LowerCase[CHOOSE i \in DOMAIN UpperCase : UpperCase[i] = c]]

\* String.prototype.toLowerCase, one character
LowerChar(c) == IF c \in DOMAIN LowerOf THEN LowerOf[c] ELSE c

\* String.prototype.toLowerCase
toLowerCase(s) == [i \in 1..Len(s) |-> LowerChar(s[i])]

\* the class \s of a regular expression, and what trim() removes
IsSpace(c) == c \in {" ", "\n", "\t"}

WordChars ==
    {UpperCase[i] : i \in DOMAIN UpperCase}
        \cup {LowerCase[i] : i \in DOMAIN LowerCase}
        \cup {Digits[i] : i \in DOMAIN Digits} \cup {"_"}

\* the class \w of a regular expression: [A-Za-z0-9_]
IsWordChar(c) == c \in WordChars

\* whether pattern p occurs in s at position i (1-based)
MatchesAt(s, p, i) ==
    /\ i >= 1
    /\ i + Len(p) - 1 <= Len(s)
    /\ \A k \in 1..Len(p) : s[i + k - 1] = p[k]

\* String.prototype.startsWith
startsWith(s, p) == MatchesAt(s, p, 1)

\* String.prototype.includes
includes(s, p) == \E i \in 1..(Len(s) - Len(p) + 1) : MatchesAt(s, p, i)

sliceRest(s, n) == s

\* String.prototype.slice(0, n)
slice0(s, n) == SubSeq(s, 1, Min(n, Len(s)))

RECURSIVE SplitFrom(_, _, _)
\* the pieces of s from position i on, cur being the piece read so far;
\* a run of white space is one separator
SplitFrom(s, i, cur) ==
    IF i > Len(s) THEN <<cur>>
    ELSE IF IsSpace(s[i])
         THEN IF i > 1 /\ IsSpace(s[i - 1])
              THEN SplitFrom(s, i + 1, cur)
              ELSE <<cur>> \o SplitFrom(s, i + 1, <<>>)
         ELSE SplitFrom(s, i + 1, Append(cur, s[i]))

\* String.prototype.split(/\s+/)
splitWhitespace(s) == SplitFrom(s, 1, <<>>)

\* Array.prototype.filter(w => w.length > 1)
LongWords(ws) == SelectSeq(ws, LAMBDA w : Len(w) > 1)

\* String.prototype.trim: the text without leading and trailing white space
trim(s) ==
    LET keep == {i \in 1..Len(s) : ~IsSpace(s[i])}
    IN  IF keep = {} THEN <<>>
        ELSE SubSeq(s, CHOOSE i \in keep : \A j \in keep : i <= j,
                       CHOOSE i \in keep : \A j \in keep : i >= j)

(***************************************************************************)
(* Query matcher / ranker: performSearch (script.js:562-614).              *)
(***************************************************************************)
RECURSIVE WordScore(_, _, _)
\* queryWords.forEach(word => { +10 if in title; +5 if in content })
WordScore(queryWords, lowerTitle, lowerContent) ==
    IF queryWords = <<>> THEN 0
    ELSE (IF includes(lowerTitle, Head(queryWords)) THEN 10 ELSE 0)
       + (IF includes(lowerContent, Head(queryWords)) THEN 5 ELSE 0)
       + WordScore(Tail(queryWords), lowerTitle, lowerContent)

\* a type bonus that overlooks item.type: every entry is given the heading's 10
TypeScoreAnyType(item) ==
    10 + (IF item.level = "h1" THEN 5 ELSE 0)
       + (IF item.level = "h2" THEN 3 ELSE 0)

\* the bonus for heading type
TypeScore(item) ==
    IF item.type = "heading"
    THEN 10 + (IF item.level = "h1" THEN 5 ELSE 0)
            + (IF item.level = "h2" THEN 3 ELSE 0)
    ELSE 0

\* the whole-query checks without the startsWith check
QueryScoreNoPrefix(lowerQuery, lowerTitle, lowerContent) ==
      (IF lowerTitle = lowerQuery THEN 100 ELSE 0)
    + (IF includes(lowerTitle, lowerQuery) THEN 30 ELSE 0)
    + (IF includes(lowerContent, lowerQuery) THEN 20 ELSE 0)

\* the four whole-query checks
QueryScore(lowerQuery, lowerTitle, lowerContent) ==
      (IF lowerTitle = lowerQuery THEN 100 ELSE 0)
    + (IF startsWith(lowerTitle, lowerQuery) THEN 50 ELSE 0)
    + (IF includes(lowerTitle, lowerQuery) THEN 30 ELSE 0)
    + (IF includes(lowerContent, lowerQuery) THEN 20 ELSE 0)

\* the score the map callback computes for one item
ItemScore(item, lowerQuery, queryWords) ==
    LET lowerTitle == toLowerCase(item.title)
        lowerContent == toLowerCase(item.content)
    IN  QueryScore(lowerQuery, lowerTitle, lowerContent)
      + WordScore(queryWords, lowerTitle, lowerContent)
      + TypeScore(item)

\* { ...item, score }
WithScore(item, s) ==
    [title |-> item.title, id |-> item.id, file |-> item.file,
     type |-> item.type, level |-> item.level, content |-> item.content,
     score |-> s]

\* the query compared as typed, toLowerCase() left out
QueryAsTyped(query) == query

\* const lowerQuery = query.toLowerCase()
LowerQuery(query) == toLowerCase(query)

\* const queryWords = lowerQuery.split(/\s+/).filter(w => w.length > 1)
QueryWords(query) == LongWords(splitWhitespace(LowerQuery(query)))

\* searchIndex.map(item => ...)
ScoredItems(query, index) ==
    [i \in 1..Len(index) |->
        WithScore(index[i], ItemScore(index[i], LowerQuery(query), QueryWords(query)))]

\* the comparator of the sort: (a, b) => b.score - a.score
CompareScore(a, b) == b.score - a.score

RECURSIVE InsertBeforeEqual(_, _)
\* an unstable insertion: x put in front of the elements it compares equal to
InsertBeforeEqual(sorted, x) ==
    IF sorted = <<>> THEN <<x>>
    ELSE IF CompareScore(Head(sorted), x) < 0
         THEN <<Head(sorted)>> \o InsertBeforeEqual(Tail(sorted), x)
         ELSE <<x>> \o sorted

RECURSIVE InsertSorted(_, _)
\* x put into the sorted list after every element that does not sort after it
InsertSorted(sorted, x) ==
    IF sorted = <<>> THEN <<x>>
    ELSE IF CompareScore(Head(sorted), x) <= 0
         THEN <<Head(sorted)>> \o InsertSorted(Tail(sorted), x)
         ELSE <<x>> \o sorted

RECURSIVE SortFrom(_, _, _)
SortFrom(items, i, sorted) ==
    IF i > Len(items) THEN sorted
    ELSE SortFrom(items, i + 1, InsertSorted(sorted, items[i]))

\* Array.prototype.sort with the comparator: a stable sort (ECMAScript 2019)
sortByScore(items) == SortFrom(items, 1, <<>>)

\* the guard of performSearch: !query || query.length < 2
QueryTooShort(query) == Len(query) < MinQueryLength

\* performSearch without the slice(0, 10)
performSearchUncapped(query, index) ==
    IF QueryTooShort(query) THEN <<>>
    ELSE sortByScore(SelectSeq(ScoredItems(query, index),
                               LAMBDA item : item.score > 0))

\* performSearch(query), reading the index given
performSearch(query, index) ==
    IF QueryTooShort(query) THEN <<>>
    ELSE slice0(sortByScore(SelectSeq(ScoredItems(query, index),
                                      LAMBDA item : item.score > 0)),
                MaxResults)

(***************************************************************************)
(* Index builder: the per-document part of buildSearchIndex                *)
(* (script.js:495-529).  A rendered document is the list of its sibling    *)
(* blocks, each a tag and its text content.                                *)
(***************************************************************************)
RECURSIVE DecimalString(_)
\* the decimal digits of a number, as `${idx}` prints it
DecimalString(n) ==
    IF n < 10 THEN <<Digits[n + 1]>>
    ELSE DecimalString(n \div 10) \o <<Digits[(n % 10) + 1]>>

\* replace(/[^\w\s-]/g, '')
StripPunctuation(s) ==
    SelectSeq(s, LAMBDA c : IsWordChar(c) \/ IsSpace(c) \/ c = "-")

IsHyphen(c) == c = "-"

\* membership in the class a replace pattern repeats: \s or -
InClass(c, class) == IF class = "space" THEN IsSpace(c) ELSE IsHyphen(c)

RECURSIVE CollapseRuns(_, _, _)
\* every maximal run of characters of the class replaced by one "-"
CollapseRuns(s, i, class) ==
    IF i > Len(s) THEN <<>>
    ELSE IF InClass(s[i], class)
         THEN IF i > 1 /\ InClass(s[i - 1], class)
              THEN CollapseRuns(s, i + 1, class)
              ELSE <<"-">> \o CollapseRuns(s, i + 1, class)
         ELSE <<s[i]>> \o CollapseRuns(s, i + 1, class)

\* replace(/\s+/g, '-')
SpacesToHyphen(s) == CollapseRuns(s, 1, "space")

\* replace(/-+/g, '-')
CollapseHyphens(s) == CollapseRuns(s, 1, "hyphen")

\* text.toLowerCase().replace(/[^\w\s-]/g, '').replace(/\s+/g, '-')
\*     .replace(/-+/g, '-').trim()
Slug(text) ==
    trim(CollapseHyphens(SpacesToHyphen(StripPunctuation(toLowerCase(text)))))

HeadingPrefix == <<"h", "e", "a", "d", "i", "n", "g", "-">>

\* the id without the fallback: const id = slug
HeadingIdSlugOnly(text, idx) == Slug(text)

\* const id = slug || `heading-${idx}`
HeadingId(text, idx) ==
    IF Slug(text) # <<>> THEN Slug(text) ELSE HeadingPrefix \o DecimalString(idx)

Keywords ==
    << <<"c", "o", "n", "s", "t">>, <<"l", "e", "t">>, <<"f", "n">>,
       <<"s", "t", "r", "u", "c", "t">>, <<"e", "n", "u", "m">>,
       <<"l", "o", "o", "p">>, <<"i", "f">>,
       <<"r", "e", "t", "u", "r", "n">>, <<"a", "l", "l", "o", "c">>,
       <<"f", "r", "e", "e">>, <<"d", "e", "f", "e", "r">>,
       <<"c", "a", "s", "t">>, <<"s", "i", "z", "e", "o", "f">>,
       <<"p", "u", "b">>, <<"p", "r", "i", "v">> >>

\* hasKeywords(text)
hasKeywords(text) ==
    \E k \in DOMAIN Keywords : includes(toLowerCase(text), Keywords[k])

\* element.matches('h1, h2, h3, h4')
IsHeading(block) == block.tag \in {"h1", "h2", "h3", "h4"}

\* findPreviousHeading(p): the position of the nearest heading among the
\* preceding siblings of block i, 0 when there is none
findPreviousHeading(blocks, i) ==
    LET before == {j \in 1..(i - 1) : IsHeading(blocks[j])}
    IN  IF before = {} THEN 0
        ELSE CHOOSE j \in before : \A k \in before : k <= j

RECURSIVE ReplaceFirstFrom(_, _, _, _)
ReplaceFirstFrom(s, pat, rep, i) ==
    IF i > Len(s) - Len(pat) + 1 THEN s
    ELSE IF MatchesAt(s, pat, i)
         THEN SubSeq(s, 1, i - 1) \o rep \o SubSeq(s, i + Len(pat), Len(s))
         ELSE ReplaceFirstFrom(s, pat, rep, i + 1)

replaceNothing(s, pat, rep) == s

\* String.prototype.replace(pattern, replacement) with a string pattern
replaceFirst(s, pat, rep) == ReplaceFirstFrom(s, pat, rep, 1)

MdSuffix == <<".", "m", "d">>

IsParagraph(block) == block.tag = "p"

IsIndexedParagraphLongOnly(block) ==
    IsParagraph(block) /\ Len(block.text) > LongParagraph

\* if (text.length > 100 || hasKeywords(text))
IsIndexedParagraph(block) ==
    IsParagraph(block) /\ (Len(block.text) > LongParagraph \/ hasKeywords(block.text))

\* whether the forEach of the given pass pushes an entry for the block
IsSelected(block, pass) ==
    IF pass = "headings" THEN IsHeading(block) ELSE IsIndexedParagraph(block)

RECURSIVE SelectFrom(_, _, _)
SelectFrom(blocks, pass, i) ==
    IF i > Len(blocks) THEN <<>>
    ELSE (IF IsSelected(blocks[i], pass) THEN <<i>> ELSE <<>>)
         \o SelectFrom(blocks, pass, i + 1)

\* the positions of the blocks a pass pushes entries for, in document order
SelectBlocks(blocks, pass) == SelectFrom(blocks, pass, 1)

\* the entry pushed for the heading at position pos, the idx-th heading
HeadingEntry(file, blocks, pos, idx) ==
    [title |-> blocks[pos].text,
     id |-> HeadingId(blocks[pos].text, idx),
     file |-> file,
     type |-> "heading",
     level |-> blocks[pos].tag,
     content |-> IF pos < Len(blocks)
                 THEN slice0(blocks[pos + 1].text, SnippetLength)
                 ELSE <<>>]

\* tempDiv.querySelectorAll('h1, h2, h3, h4').forEach((heading, idx) => push)
HeadingEntries(file, blocks) ==
    LET hs == SelectBlocks(blocks, "headings")
    IN  [k \in 1..Len(hs) |-> HeadingEntry(file, blocks, hs[k], k - 1)]

\* the id of a content entry under the heading text: slug || `heading-` + Math.random()
ContentId(headingText, random) ==
    IF Slug(headingText) # <<>> THEN Slug(headingText) ELSE HeadingPrefix \o random

\* the entry pushed for the paragraph at position pos
ContentEntry(file, blocks, pos, random) ==
    LET prev == findPreviousHeading(blocks, pos)
    IN  [title |-> IF prev # 0 THEN blocks[prev].text
                   ELSE replaceFirst(file, MdSuffix, <<>>),
         id |-> IF prev # 0 THEN ContentId(blocks[prev].text, random) ELSE <<>>,
         file |-> file,
         type |-> "content",
         level |-> "undefined",
         content |-> slice0(blocks[pos].text, SnippetLength)]

\* tempDiv.querySelectorAll('p').forEach(p => push when long or keyworded);
\* rnd gives Math.random()'s value at each paragraph
ContentEntries(file, blocks, rnd) ==
    LET ps == SelectBlocks(blocks, "paragraphs")
    IN  [k \in 1..Len(ps) |-> ContentEntry(file, blocks, ps[k], rnd[ps[k]])]

\* everything one document adds to the index: headings first, then paragraphs
DocumentEntries(file, blocks, rnd) ==
    HeadingEntries(file, blocks) \o ContentEntries(file, blocks, rnd)

(***************************************************************************)
(* The server: manifest.json and the documents under docs/, as rendered by *)
(* marked.parse.  A manifest item is a file name or a folder of file names.*)
(***************************************************************************)
FileA == <<"a", ".", "m", "d">>
FileB == <<"g", "/", "b", ".", "m", "d">>

Block(tag, text) == [tag |-> tag, text |-> text]

\* n copies of the text s
Repeat(s, n) == [i \in 1..(n * Len(s)) |-> s[((i - 1) % Len(s)) + 1]]

DocA ==
    << Block("h1", <<"A", "b">>),
       Block("p", <<"i", "f", " ", "a", "b", " ", "b", "a">>),
       Block("h2", <<"a", "b", " ", "b", "a">>),
       Block("pre", <<"l", "e", "t">>),
       Block("h2", <<"A", "b">>),
       Block("p", <<"b", "a", " ", "a", "b", " ", "i", "f">>),
       Block("h3", <<"B", " ", "a">>) >>

DocB ==
    << Block("p", Repeat(<<"a", "b">>, 51)),
       Block("h3", <<"?", "?", "?">>),
       Block("p", <<"f", "n", " ", "b", "a">>),
       Block("h4", <<"B", "a", " ", "a", "b", "!">>),
       Block("p", <<"a", "b">>),
       Block("h2", <<"a", "b">>),
       Block("h2", <<"a", "b">>) >>

Files == {FileA, FileB}

\* the rendered blocks of each document the server holds
Documents == [f \in Files |-> IF f = FileA THEN DocA ELSE DocB]

FileItem(f) == [kind |-> "string", file |-> f, files |-> <<>>]
FolderItem(fs) == [kind |-> "folder", file |-> <<>>, files |-> fs]

Manifests ==
    { <<FileItem(FileA), FolderItem(<<FileB>>)>>,
      <<FolderItem(<<>>), FileItem(FileB)>>,
      <<>> }

\* what Math.random() can print as
RandomStrings == { <<"0", ".", "3">>, <<"0", ".", "8">> }

\* the paragraphs whose id is made with Math.random()
RandomSites(blocks) ==
    {i \in 1..Len(blocks) :
        /\ IsIndexedParagraph(blocks[i])
        /\ findPreviousHeading(blocks, i) # 0
        /\ Slug(blocks[findPreviousHeading(blocks, i)].text) = <<>>}

\* the values Math.random() takes while one document is indexed
RandomDraws(blocks) == [RandomSites(blocks) -> RandomStrings]

\* rnd read at paragraph i (only read where Math.random() is called)
Drawn(rnd, blocks) ==
    [i \in 1..Len(blocks) |-> IF i \in DOMAIN rnd THEN rnd[i] ELSE <<>>]

RECURSIVE filesToIndex(_)
\* manifest.forEach(item => string: push(item); item.files: push(...item.files))
filesToIndex(m) ==
    IF m = <<>> THEN <<>>
    ELSE (IF Head(m).kind = "string" THEN <<Head(m).file>> ELSE Head(m).files)
         \o filesToIndex(Tail(m))

\* showDocs: defaultFile, <<>> when the manifest gives none
defaultFile(m) ==
    IF Len(m) > 0
    THEN IF m[1].kind = "string" THEN m[1].file
         ELSE IF Len(m[1].files) > 0 THEN m[1].files[1] ELSE <<>>
    ELSE <<>>

(***************************************************************************)
(* Term highlighter: highlightSearchTerms (script.js:617-627).             *)
(*                                                                         *)
(* new RegExp(`(${word})`, 'gi') compiles the word as a pattern.  The      *)
(* pattern language modelled is the one the characters of the model's      *)
(* alphabet can spell: literal characters, "." , groups "(" ")", classes   *)
(* "[" "]" of literal characters, and the quantifiers "*" "+" "?" with     *)
(* their lazy forms.  A pattern that does not parse is a SyntaxError.      *)
(***************************************************************************)
IsQuantifier(c) == c \in {"*", "+", "?"}

\* a term of a pattern: an atom and how often it repeats (max -1: unbounded)
Term(atom, min, max, greedy) ==
    [atom |-> atom, min |-> min, max |-> max, greedy |-> greedy]

\* the quantifier read at position i of pattern p behind an atom that ended
\* there: the term and the position behind it
Quantified(p, i, atom) ==
    IF i <= Len(p) /\ IsQuantifier(p[i])
    THEN LET min == IF p[i] = "+" THEN 1 ELSE 0
             max == IF p[i] = "?" THEN 1 ELSE -1
             lazy == i + 1 <= Len(p) /\ p[i + 1] = "?"
         IN  [term |-> Term(atom, min, max, ~lazy),
              next |-> IF lazy THEN i + 2 ELSE i + 1]
    ELSE [term |-> Term(atom, 1, 1, TRUE), next |-> i]

\* the position of the first "]" of p at or behind i, 0 when there is none
ClassEnd(p, i) ==
    LET ends == {j \in i..Len(p) : p[j] = "]"}
    IN  IF ends = {} THEN 0 ELSE CHOOSE j \in ends : \A k \in ends : j <= k

RECURSIVE ParseTerms(_, _, _, _)
\* the terms of pattern p from position i up to the end of the pattern or
\* the ")" that closes the group being read; groups is the number of groups
\* opened so far.  ok is FALSE for a SyntaxError.
ParseTerms(p, i, groups, terms) ==
    IF i > Len(p) \/ p[i] = ")"
    THEN [ok |-> TRUE, terms |-> terms, next |-> i, groups |-> groups]
    ELSE IF IsQuantifier(p[i])
    THEN [ok |-> FALSE, terms |-> <<>>, next |-> i, groups |-> groups]   \* nothing to repeat
    ELSE IF p[i] = "("
    THEN IF i + 1 <= Len(p) /\ p[i + 1] = "?"
         THEN [ok |-> FALSE, terms |-> <<>>, next |-> i, groups |-> groups]   \* invalid group
         ELSE LET inner == ParseTerms(p, i + 1, groups + 1, <<>>)
              IN  IF ~inner.ok \/ inner.next > Len(p)
                  THEN [ok |-> FALSE, terms |-> <<>>, next |-> i, groups |-> groups]   \* unterminated group
                  ELSE LET atom == [kind |-> "group", index |-> groups + 1,
                                    terms |-> inner.terms, chars |-> {}]
                           q == Quantified(p, inner.next + 1, atom)
                       IN  ParseTerms(p, q.next, inner.groups, Append(terms, q.term))
    ELSE IF p[i] = "["
    THEN IF ClassEnd(p, i + 1) = 0
         THEN [ok |-> FALSE, terms |-> <<>>, next |-> i, groups |-> groups]   \* unterminated class
         ELSE LET close == ClassEnd(p, i + 1)
                  atom == [kind |-> "class", index |-> 0, terms |-> <<>>,
                           chars |-> {p[j] : j \in (i + 1)..(close - 1)}]
                  q == Quantified(p, close + 1, atom)
              IN  ParseTerms(p, q.next, groups, Append(terms, q.term))
    ELSE LET atom == [kind |-> IF p[i] = "." THEN "any" ELSE "char", index |-> 0,
                      terms |-> <<>>, chars |-> {p[i]}]
             q == Quantified(p, i + 1, atom)
         IN  ParseTerms(p, q.next, groups, Append(terms, q.term))

\* new RegExp(pattern, 'gi'): ok is FALSE when the constructor throws
RegExpNew(pattern) ==
    LET parsed == ParseTerms(pattern, 1, 0, <<>>)
    IN  IF parsed.ok /\ parsed.next > Len(pattern)
        THEN [ok |-> TRUE, terms |-> parsed.terms]
        ELSE [ok |-> FALSE, terms |-> <<>>]     \* also an unmatched ")"

\* a match state: the position behind the text matched so far and what
\* group 1 captured, <<>> while it has captured nothing
MatchState(end, cap) == [end |-> end, cap |-> cap]

\* comparison under the i flag
SameLetter(c, d) == LowerChar(c) = LowerChar(d)

RECURSIVE MatchTerms(_, _, _, _, _)
RECURSIVE MatchRepeat(_, _, _, _, _, _)
RECURSIVE MatchAtom(_, _, _, _)

\* the ways the atom matches text s at position i, in the order the
\* backtracking matcher tries them
MatchAtom(atom, s, i, cap) ==
    IF atom.kind = "group"
    THEN LET inner == MatchTerms(atom.terms, 1, s, i,
                                 IF atom.index = 1 THEN <<>> ELSE cap)
         IN  [k \in 1..Len(inner) |->
                 MatchState(inner[k].end,
                            IF atom.index = 1 THEN <<i, inner[k].end>>
                            ELSE inner[k].cap)]
    ELSE IF /\ i <= Len(s)
            /\ CASE atom.kind = "any" -> s[i] # "\n"
                 [] atom.kind = "class" -> \E c \in atom.chars : SameLetter(c, s[i])
                 [] OTHER -> \E c \in atom.chars : SameLetter(c, s[i])
         THEN <<MatchState(i + 1, cap)>>
         ELSE <<>>

\* the ways the term matches with min to max more repetitions of its atom;
\* once min is 0 a repetition that matches the empty text is rejected
MatchRepeat(term, s, i, cap, min, max) ==
    IF max = 0 THEN <<MatchState(i, cap)>>
    ELSE LET once == MatchAtom(term.atom, s, i, cap)
             less == IF max > 0 THEN max - 1 ELSE max
             RECURSIVE More(_)
             More(k) ==
                 IF k > Len(once) THEN <<>>
                 ELSE (IF min = 0 /\ once[k].end = i THEN <<>>
                       ELSE MatchRepeat(term, s, once[k].end, once[k].cap,
                                        IF min > 0 THEN min - 1 ELSE 0, less))
                      \o More(k + 1)
         IN  IF min > 0 THEN More(1)
             ELSE IF term.greedy THEN More(1) \o <<MatchState(i, cap)>>
             ELSE <<MatchState(i, cap)>> \o More(1)

\* the ways terms k.. match text s at position i
MatchTerms(terms, k, s, i, cap) ==
    IF k > Len(terms) THEN <<MatchState(i, cap)>>
    ELSE LET first == MatchRepeat(terms[k], s, i, cap, terms[k].min, terms[k].max)
             RECURSIVE Rest(_)
             Rest(j) ==
                 IF j > Len(first) THEN <<>>
                 ELSE MatchTerms(terms, k + 1, s, first[j].end, first[j].cap)
                      \o Rest(j + 1)
         IN  Rest(1)

MarkOpen == <<"<", "m", "a", "r", "k", ">">>
MarkClose == <<"<", "/", "m", "a", "r", "k", ">">>

\* the replacement '<mark>$1</mark>' for one match
Replacement(s, cap) ==
    MarkOpen \o (IF cap = <<>> THEN <<>> ELSE SubSeq(s, cap[1], cap[2] - 1))
             \o MarkClose

RECURSIVE ReplaceFrom(_, _, _, _)
\* String.prototype.replace with a global pattern: lastIndex is where the
\* next match is tried, copied the position behind the last match; an empty
\* match moves lastIndex one character on
ReplaceFrom(s, terms, lastIndex, copied) ==
    IF lastIndex > Len(s) + 1 THEN SubSeq(s, copied, Len(s))
    ELSE LET found == MatchTerms(terms, 1, s, lastIndex, <<>>)
         IN  IF found = <<>> THEN ReplaceFrom(s, terms, lastIndex + 1, copied)
             ELSE SubSeq(s, copied, lastIndex - 1)
                  \o Replacement(s, found[1].cap)
                  \o ReplaceFrom(s, terms,
                                 IF found[1].end = lastIndex THEN lastIndex + 1
                                 ELSE found[1].end,
                                 found[1].end)

\* highlighted.replace(regex, '<mark>$1</mark>')
replaceAll(s, terms) == ReplaceFrom(s, terms, 1, 1)

\* the pattern of one word: `(${word})`
WordPattern(word) == <<"(">> \o word \o <<")">>

RECURSIVE HighlightWords(_, _)
\* words.forEach(word => { regex = new RegExp(...); highlighted = ... })
HighlightWords(highlighted, words) ==
    IF words = <<>> THEN [threw |-> FALSE, value |-> highlighted]
    ELSE LET regex == RegExpNew(WordPattern(Head(words)))
         IN  IF ~regex.ok THEN [threw |-> TRUE, value |-> <<>>]
             ELSE HighlightWords(replaceAll(highlighted, regex.terms), Tail(words))

\* highlightSearchTerms(text, query): threw is TRUE when it raised
highlightSearchTerms(text, query) ==
    HighlightWords(text, LongWords(splitWhitespace(toLowerCase(query))))

(***************************************************************************)
(* The session: showDocs, buildSearchIndex, navigateTo and the input       *)
(* handler of the search box.  Every await is a point where another        *)
(* handler may run; what runs between two awaits is one action.            *)
(***************************************************************************)
NoHighlight == [text |-> <<>>, query |-> <<>>, threw |-> FALSE, value |-> <<>>]

EmptyPanel == [active |-> FALSE, html |-> "empty", items |-> <<>>]

Init ==
    /\ searchIndex = <<>>
    /\ isSearchIndexBuilt = FALSE
    /\ shows = <<>>
    /\ builds = <<>>
    /\ navs = <<>>
    /\ content = [kind |-> "empty", file |-> <<>>]
    /\ lastQuery = <<>>
    /\ lastResults = <<>>
    /\ panel = EmptyPanel
    /\ inputs = 0
    /\ hl = NoHighlight
    /\ manifest \in Manifests
    /\ page = <<>>
    /\ jumps = <<>>
    /\ scroll = 0

searchVars == <<lastQuery, lastResults, panel, inputs, hl>>

buildVars == <<searchIndex, isSearchIndexBuilt, builds>>

\* showDocs() up to its first await: fetch('manifest.json')
ShowDocs ==
    /\ Len(shows) < MaxShowDocs
    /\ shows' = Append(shows, [pc |-> "manifest"])
    /\ UNCHANGED <<searchIndex, isSearchIndexBuilt, builds, navs, content,
                   searchVars, manifest, page, jumps, scroll>>

\* a buildSearchIndex call at its start
BuildCall(pc) == [pc |-> pc, files |-> <<>>, i |-> 0, indexed |-> {}]

buildSearchIndexCallUnguarded ==
    /\ builds' = Append(builds, BuildCall("manifest"))
    /\ searchIndex' = <<>>

\* buildSearchIndex() up to its first await: the guard, the reset of the
\* index, fetch('manifest.json')
buildSearchIndexCall ==
    IF isSearchIndexBuilt
    THEN /\ builds' = Append(builds, BuildCall("returned"))
         /\ UNCHANGED searchIndex
    ELSE /\ builds' = Append(builds, BuildCall("manifest"))
         /\ searchIndex' = <<>>

\* navigateTo(file) up to its await: the loading notice, fetch(`docs/${file}`)
navigateToCall(file) ==
    /\ content' = [kind |-> "loading", file |-> <<>>]
    /\ navs' = Append(navs, [file |-> file, pc |-> "fetch"])

\* showDocs() resumed with the manifest: generateSidebar, buildSearchIndex(),
\* navigateTo(defaultFile)
ShowDocsLoaded(s) ==
    /\ shows[s].pc = "manifest"
    /\ shows' = [shows EXCEPT ![s].pc = "done"]
    /\ buildSearchIndexCall
    /\ IF defaultFile(manifest) # <<>>
       THEN navigateToCall(defaultFile(manifest))
       ELSE UNCHANGED <<navs, content>>
    /\ UNCHANGED <<isSearchIndexBuilt, searchVars, manifest, page, jumps, scroll>>

\* showDocs() resumed with a failed fetch or an unparsable manifest: the catch
ShowDocsFailed(s) ==
    /\ shows[s].pc = "manifest"
    /\ shows' = [shows EXCEPT ![s].pc = "failed"]
    /\ content' = [kind |-> "error", file |-> <<"manifest">>]
    /\ UNCHANGED <<searchIndex, isSearchIndexBuilt, builds, navs, searchVars, manifest, page, jumps, scroll>>

\* the build after the manifest was read: the loop starts, or ends at once
BuildManifestLoaded(b) ==
    /\ builds[b].pc = "manifest"
    /\ LET files == filesToIndex(manifest)
       IN  IF files = <<>>
           THEN /\ builds' = [builds EXCEPT ![b].pc = "done", ![b].files = files]
                /\ isSearchIndexBuilt' = TRUE
           ELSE /\ builds' = [builds EXCEPT ![b].pc = "document", ![b].files = files,
                                            ![b].i = 1]
                /\ UNCHANGED isSearchIndexBuilt
    /\ UNCHANGED <<searchIndex, shows, navs, content, searchVars, manifest, page, jumps, scroll>>

\* the build's outer catch: the manifest could not be fetched or parsed
BuildManifestFailed(b) ==
    /\ builds[b].pc = "manifest"
    /\ builds' = [builds EXCEPT ![b].pc = "failed"]
    /\ UNCHANGED <<searchIndex, isSearchIndexBuilt, shows, navs, content,
                   searchVars, manifest, page, jumps, scroll>>

\* a loop without the continue and the inner catch: a failed fetch ends the
\* build in the outer catch
NextDocumentOrAbort(b, fetched) ==
    IF ~fetched
    THEN /\ builds' = [builds EXCEPT ![b].pc = "failed"]
         /\ UNCHANGED isSearchIndexBuilt
    ELSE IF builds[b].i < Len(builds[b].files)
    THEN /\ builds' = [builds EXCEPT ![b].i = @ + 1,
                                     ![b].indexed = @ \cup {builds[b].i}]
         /\ UNCHANGED isSearchIndexBuilt
    ELSE /\ builds' = [builds EXCEPT ![b].pc = "done",
                                     ![b].indexed = @ \cup {builds[b].i}]
         /\ isSearchIndexBuilt' = TRUE

\* the loop of the build behind document i, fetched telling whether the
\* document was indexed: the next fetch, or the end of the loop and
\* isSearchIndexBuilt = true
NextDocument(b, fetched) ==
    LET seen == IF fetched THEN builds[b].indexed \cup {builds[b].i}
                ELSE builds[b].indexed
    IN  IF builds[b].i < Len(builds[b].files)
        THEN /\ builds' = [builds EXCEPT ![b].i = @ + 1, ![b].indexed = seen]
             /\ UNCHANGED isSearchIndexBuilt
        ELSE /\ builds' = [builds EXCEPT ![b].pc = "done", ![b].indexed = seen]
             /\ isSearchIndexBuilt' = TRUE

\* the build resumed with a fetched document: its entries are pushed
BuildDocumentFetched(b) ==
    /\ builds[b].pc = "document"
    /\ LET file == builds[b].files[builds[b].i]
           blocks == Documents[file]
       IN  \E rnd \in RandomDraws(blocks) :
               searchIndex' = searchIndex \o DocumentEntries(file, blocks, Drawn(rnd, blocks))
    /\ NextDocument(b, TRUE)
    /\ UNCHANGED <<shows, navs, content, searchVars, manifest, page, jumps, scroll>>

\* the build resumed with a response that is not ok: continue
BuildDocumentNotOk(b) ==
    /\ builds[b].pc = "document"
    /\ NextDocument(b, FALSE)
    /\ UNCHANGED <<searchIndex, shows, navs, content, searchVars, manifest, page, jumps, scroll>>

\* the build resumed with a rejected fetch: the catch inside the loop
BuildDocumentError(b) ==
    /\ builds[b].pc = "document"
    /\ NextDocument(b, FALSE)
    /\ UNCHANGED <<searchIndex, shows, navs, content, searchVars, manifest, page, jumps, scroll>>

\* navigateTo resumed with the document: parseAndRenderMarkdown
NavigateLoaded(n) ==
    /\ navs[n].pc = "fetch"
    /\ navs' = [navs EXCEPT ![n].pc = "done"]
    /\ content' = [kind |-> "document", file |-> navs[n].file]
    /\ UNCHANGED <<searchIndex, isSearchIndexBuilt, shows, builds, searchVars, manifest, page, jumps, scroll>>

NavigateFailedRetried(n) ==
    /\ navs[n].pc = "fetch"
    /\ Len(navs) < 4
    /\ navs' = Append([navs EXCEPT ![n].pc = "failed"],
                      [file |-> navs[n].file, pc |-> "fetch"])
    /\ content' = [kind |-> "error", file |-> navs[n].file]
    /\ UNCHANGED <<searchIndex, isSearchIndexBuilt, shows, builds, searchVars, manifest, page, jumps, scroll>>

\* navigateTo resumed with a failure: the error notice
NavigateFailed(n) ==
    /\ navs[n].pc = "fetch"
    /\ navs' = [navs EXCEPT ![n].pc = "failed"]
    /\ content' = [kind |-> "error", file |-> navs[n].file]
    /\ UNCHANGED <<searchIndex, isSearchIndexBuilt, shows, builds, searchVars, manifest, page, jumps, scroll>>

\* what displaySearchResults shows of one result
ResultItem(result, query) ==
    [title |-> highlightSearchTerms(result.title, query).value,
     snippet |-> highlightSearchTerms(trim(result.content), query).value,
     file |-> result.file, id |-> result.id]

\* displaySearchResults(results, query, container): the container afterwards;
\* threw is TRUE when highlightSearchTerms raised at the first result
displaySearchResults(results, query) ==
    IF Len(results) = 0
    THEN [threw |-> FALSE, html |-> "no-results", items |-> <<>>]
    ELSE IF highlightSearchTerms(trim(results[1].content), query).threw
    THEN [threw |-> TRUE, html |-> "empty", items |-> <<>>]
    ELSE [threw |-> FALSE, html |-> "results",
          items |-> [k \in 1..Len(results) |-> ResultItem(results[k], query)]]

\* the input handler of the search box (script.js:731-742)
SearchInput(query) ==
    /\ inputs < MaxInputs
    /\ inputs' = inputs + 1
    /\ lastQuery' = query
    /\ IF Len(query) < MinQueryLength
       THEN /\ panel' = [panel EXCEPT !.active = FALSE]
            /\ UNCHANGED lastResults
       ELSE LET results == performSearch(query, searchIndex)
                shown == displaySearchResults(results, query)
            IN  /\ lastResults' = results
                /\ panel' = [active |-> IF shown.threw THEN panel.active ELSE TRUE,
                             html |-> shown.html, items |-> shown.items]
    /\ UNCHANGED <<searchIndex, isSearchIndexBuilt, shows, builds, navs, content,
                   hl, manifest, page, jumps, scroll>>

\* the strings of at most n characters over an alphabet
StringsUpTo(chars, n) == UNION {[1..k -> chars] : k \in 0..n}

\* what the reader types in the modelled sessions: a matching word, white
\* space only, a single character, a word with a pattern character
SessionQueries ==
    { <<"a", "b">>, <<" ", " ">>, <<"a">>, <<"a", "(">> }

Next ==
    \/ ShowDocs
    \/ \E s \in DOMAIN shows : ShowDocsLoaded(s)
    \/ \E s \in DOMAIN shows : ShowDocsFailed(s)
    \/ \E b \in DOMAIN builds : BuildManifestLoaded(b)
    \/ \E b \in DOMAIN builds : BuildManifestFailed(b)
    \/ \E b \in DOMAIN builds : BuildDocumentFetched(b)
    \/ \E b \in DOMAIN builds : BuildDocumentNotOk(b)
    \/ \E b \in DOMAIN builds : BuildDocumentError(b)
    \/ \E n \in DOMAIN navs : NavigateLoaded(n)
    \/ \E n \in DOMAIN navs : NavigateFailed(n)
    \/ \E q \in SessionQueries : SearchInput(q)

Spec == Init /\ [][Next]_vars

(***************************************************************************)
(* performSearch as a function of the query and the index: the index is    *)
(* one a finished build leaves, the query any string of the alphabet.      *)
(***************************************************************************)
QueryChars == {"a", "b", "A", " "}

Queries == StringsUpTo(QueryChars, MaxQueryLen)

RECURSIVE IndexOfFiles(_, _, _)
\* the index a single build leaves when exactly the documents in fetched
\* could be fetched
IndexOfFiles(files, fetched, random) ==
    IF files = <<>> THEN <<>>
    ELSE (IF Head(files) \in fetched
          THEN DocumentEntries(Head(files), Documents[Head(files)],
                               [i \in 1..Len(Documents[Head(files)]) |-> random])
          ELSE <<>>)
         \o IndexOfFiles(Tail(files), fetched, random)

InitSearch ==
    /\ manifest \in Manifests
    /\ isSearchIndexBuilt = TRUE
    /\ shows = <<[pc |-> "done"]>>
    /\ \E fetched \in SUBSET Files : \E random \in RandomStrings :
           /\ searchIndex = IndexOfFiles(filesToIndex(manifest), fetched, random)
           /\ builds = <<[pc |-> "done", files |-> filesToIndex(manifest),
                          i |-> Len(filesToIndex(manifest)),
                          indexed |-> {k \in DOMAIN filesToIndex(manifest) :
                                          filesToIndex(manifest)[k] \in fetched}]>>
    /\ navs = <<>>
    /\ content = [kind |-> "empty", file |-> <<>>]
    /\ lastQuery = <<>>
    /\ lastResults = <<>>
    /\ panel = EmptyPanel
    /\ inputs = 0
    /\ hl = NoHighlight
    /\ page = <<>>
    /\ jumps = <<>>
    /\ scroll = 0

\* performSearch(query) is called
ApplySearch(query) ==
    /\ inputs = 0
    /\ inputs' = 1
    /\ lastQuery' = query
    /\ lastResults' = performSearch(query, searchIndex)
    /\ UNCHANGED <<searchIndex, isSearchIndexBuilt, shows, builds, navs, content,
                   panel, hl, manifest, page, jumps, scroll>>

NextSearch == \E q \in Queries : ApplySearch(q)

SpecSearch == InitSearch /\ [][NextSearch]_vars

(***************************************************************************)
(* highlightSearchTerms as a function of the text and the query.           *)
(***************************************************************************)
HighlightChars == {"a", "b", "A", " ", "(", ")", "[", "+", "*", "?"}

\* queries of two words: the same word twice, two words of the text, and a
\* word that the text does not hold
TwoWordQueries ==
    { <<"a", "b", " ", "a", "b">>, <<"a", "b", " ", "b", "a">>,
      <<"a", "b", " ", "a", "r">> }

HighlightQueries == StringsUpTo(HighlightChars, MaxHighlightLen) \cup TwoWordQueries

HighlightTexts ==
    { <<"A", "b">>, <<"a", "b", " ", "b", "a">>, <<"B", "a", " ", "a", "b", "!">>,
      <<"a", "a", "(", "b">>, <<"a", "+", "b">> }

\* highlightSearchTerms(text, query) is called
ApplyHighlight(text, query) ==
    /\ hl = NoHighlight
    /\ hl' = [text |-> text, query |-> query,
              threw |-> highlightSearchTerms(text, query).threw,
              value |-> highlightSearchTerms(text, query).value]
    /\ UNCHANGED <<searchIndex, isSearchIndexBuilt, shows, builds, navs, content,
                   lastQuery, lastResults, panel, inputs, manifest, page, jumps, scroll>>

NextHighlight ==
    \E text \in HighlightTexts : \E q \in HighlightQueries : ApplyHighlight(text, q)

InitHighlight == Init /\ manifest = <<>>

SpecHighlight == InitHighlight /\ [][NextHighlight]_vars

(***************************************************************************)
(* The indexing pass of buildSearchIndex as a function of the rendered     *)
(* document: a build of the one-document manifest ["a.md"] is resumed with *)
(* the document the fetch returned.                                        *)
(***************************************************************************)
HeadingChars == {"a", "B", "-", " ", "!"}

\* heading texts as marked.parse renders them: no white space at either end
HeadingTexts ==
    {s \in StringsUpTo(HeadingChars, MaxHeadingLen) :
        s # <<>> => (~IsSpace(s[1]) /\ ~IsSpace(s[Len(s)]))}

\* the blocks the longer documents are made of: headings of equal text, a
\* heading without word characters, a heading that reads like a fallback id,
\* paragraphs with and without a keyword, of 2, 102 and 302 characters, and
\* a block that is neither heading nor paragraph
PageBlocks ==
    { Block("h2", <<"a", "b">>),
      Block("h3", <<"a", "b">>),
      Block("h2", <<"?">>),
      Block("h4", <<"h", "e", "a", "d", "i", "n", "g", "-", "1">>),
      Block("p", <<"I", "f", " ", "a">>),
      Block("p", <<"a", "b">>),
      Block("p", Repeat(<<"a", "b">>, 51)),
      Block("p", Repeat(<<"a", "b">>, 151)),
      Block("pre", <<"l", "e", "t">>) }

Pages ==
    UNION {[1..n -> PageBlocks] : n \in 0..MaxBlocks}
    \cup {<<Block("h1", s)>> : s \in HeadingTexts}
    \cup {<<Block("h1", s), Block("p", <<"I", "f", " ", "a">>)>> : s \in HeadingTexts}

InitIndex ==
    /\ page \in Pages
    /\ manifest = <<FileItem(FileA)>>
    /\ searchIndex = <<>>
    /\ isSearchIndexBuilt = FALSE
    /\ shows = <<[pc |-> "done"]>>
    /\ builds = <<[pc |-> "document", files |-> <<FileA>>, i |-> 1, indexed |-> {}]>>
    /\ navs = <<>>
    /\ content = [kind |-> "empty", file |-> <<>>]
    /\ lastQuery = <<>>
    /\ lastResults = <<>>
    /\ panel = EmptyPanel
    /\ inputs = 0
    /\ hl = NoHighlight
    /\ jumps = <<>>
    /\ scroll = 0

\* the build resumed with the fetched document page: its entries are pushed
IndexPage(b) ==
    /\ builds[b].pc = "document"
    /\ \E rnd \in RandomDraws(page) :
           searchIndex' = searchIndex
               \o DocumentEntries(builds[b].files[builds[b].i], page, Drawn(rnd, page))
    /\ NextDocument(b, TRUE)
    /\ UNCHANGED <<shows, navs, content, searchVars, manifest, page, jumps, scroll>>

NextIndex == \E b \in DOMAIN builds : IndexPage(b)

SpecIndex == InitIndex /\ [][NextIndex]_vars

(***************************************************************************)
(* navigateToResult: a click on a shown result loads the result's document *)
(* and scrolls to the result's anchor.  The index is the one a finished    *)
(* build of both documents leaves and the default document is mounted.     *)
(***************************************************************************)
HeaderOffset == 100

FallbackTop == 60

SettleDelay == 150

GlowDelay == 1500

\* where the looked-up element may lie in the page:
\* getBoundingClientRect().top + window.pageYOffset
ElementPositions == {40, 700}

NeedsLookupAlways(id) == TRUE

\* if (id)
NeedsLookup(id) == id # <<>>

OffsetPositionNoHeader(elementPosition) == elementPosition

\* offsetPosition = elementPosition + window.pageYOffset - headerOffset
OffsetPosition(elementPosition) == elementPosition - HeaderOffset

\* a navigateToResult call at its await of navigateTo, call number nav
ResultCall(file, id, nav) ==
    [file |-> file, id |-> id, nav |-> nav, pc |-> "navigate",
     found |-> "none", top |-> 0, timer |-> 0]

\* the click listener of the k-th shown result: navigateToResult(file, id)
\* up to its await
ResultClick(k) ==
    /\ Len(jumps) < MaxJumps
    /\ panel.active
    /\ k \in DOMAIN panel.items
    /\ navigateToCall(panel.items[k].file)
    /\ jumps' = Append(jumps, ResultCall(panel.items[k].file, panel.items[k].id,
                                         Len(navs) + 1))
    /\ UNCHANGED <<searchIndex, isSearchIndexBuilt, shows, builds, searchVars,
                   manifest, page, scroll>>

\* navigateToResult resumed after its navigateTo settled: the results are
\* hidden; with an id the lookup is put behind a timer, without one the page
\* scrolls to the fallback position
NavigateToResultResumed(j) ==
    /\ jumps[j].pc = "navigate"
    /\ navs[jumps[j].nav].pc # "fetch"
    /\ panel' = [panel EXCEPT !.active = FALSE]
    /\ IF NeedsLookup(jumps[j].id)
       THEN /\ jumps' = [jumps EXCEPT ![j].pc = "settle", ![j].timer = SettleDelay]
            /\ UNCHANGED scroll
       ELSE /\ jumps' = [jumps EXCEPT ![j].pc = "done"]
            /\ scroll' = FallbackTop
    /\ UNCHANGED <<searchIndex, isSearchIndexBuilt, shows, builds, navs, content,
                   lastQuery, lastResults, inputs, hl, manifest, page>>

\* the timer of 150 ms fires: document.getElementById(id) finds an element
\* somewhere in the page, or finds none
LookupTimeout(j) ==
    /\ jumps[j].pc = "settle"
    /\ \/ \E top \in ElementPositions :
              /\ jumps' = [jumps EXCEPT ![j].pc = "glow", ![j].found = "yes",
                                        ![j].top = top, ![j].timer = GlowDelay]
              /\ scroll' = OffsetPosition(top)
       \/ /\ jumps' = [jumps EXCEPT ![j].pc = "done", ![j].found = "no",
                                    ![j].timer = 0]
          /\ scroll' = FallbackTop
    /\ UNCHANGED <<searchIndex, isSearchIndexBuilt, shows, builds, navs, content,
                   searchVars, manifest, page>>

\* a reset that gives up when the document of the call is no longer mounted
GlowTimeoutIfMounted(j) ==
    /\ jumps[j].pc = "glow"
    /\ content = [kind |-> "document", file |-> jumps[j].file]
    /\ jumps' = [jumps EXCEPT ![j].pc = "done", ![j].timer = 0]
    /\ UNCHANGED <<searchIndex, isSearchIndexBuilt, shows, builds, navs, content,
                   searchVars, manifest, page, scroll>>

\* the timer of 1500 ms fires: the background of the element is reset
GlowTimeout(j) ==
    /\ jumps[j].pc = "glow"
    /\ jumps' = [jumps EXCEPT ![j].pc = "done", ![j].timer = 0]
    /\ UNCHANGED <<searchIndex, isSearchIndexBuilt, shows, builds, navs, content,
                   searchVars, manifest, page, scroll>>

\* what the reader types before clicking: a query that matches the paragraph
\* without heading of g/b.md, and one that matches the paragraphs of a.md
NavigateQueries == { <<"a", "b", "a", "b">>, <<"i", "f">> }

InitNavigate ==
    /\ manifest = <<FileItem(FileA), FolderItem(<<FileB>>)>>
    /\ isSearchIndexBuilt = TRUE
    /\ shows = <<[pc |-> "done"]>>
    /\ searchIndex = IndexOfFiles(<<FileA, FileB>>, Files, <<"0", ".", "3">>)
    /\ builds = <<[pc |-> "done", files |-> <<FileA, FileB>>, i |-> 2,
                   indexed |-> {1, 2}]>>
    /\ navs = <<[file |-> FileA, pc |-> "done"]>>
    /\ content = [kind |-> "document", file |-> FileA]
    /\ lastQuery = <<>>
    /\ lastResults = <<>>
    /\ panel = EmptyPanel
    /\ inputs = 0
    /\ hl = NoHighlight
    /\ page = <<>>
    /\ jumps = <<>>
    /\ scroll = 0

NextNavigate ==
    \/ \E q \in NavigateQueries : SearchInput(q)
    \/ \E k \in 1..MaxResults : ResultClick(k)
    \/ \E n \in DOMAIN navs : NavigateLoaded(n)
    \/ \E n \in DOMAIN navs : NavigateFailed(n)
    \/ \E j \in DOMAIN jumps : NavigateToResultResumed(j)
    \/ \E j \in DOMAIN jumps : LookupTimeout(j)
    \/ \E j \in DOMAIN jumps : GlowTimeout(j)

SpecNavigate == InitNavigate /\ [][NextNavigate]_vars

(***************************************************************************)
(* performSearch called repeatedly on a built index.                       *)
(***************************************************************************)
\* queries called twice: words of the documents in either case, two words,
\* a keyword, a word no document holds, a single character
RepeatQueries ==
    { <<"a", "b">>, <<"A", "b">>, <<"b", " ", "a">>, <<"b", "a">>, <<"i", "f">>,
      <<"b", "b">>, <<"a">> }

\* a performSearch that sorts the index itself instead of the mapped copy
SearchCallInPlace(query) ==
    /\ inputs < MaxSearches
    /\ inputs' = inputs + 1
    /\ lastQuery' = query
    /\ lastResults' = performSearch(query, searchIndex)
    /\ searchIndex' = IF QueryTooShort(query) THEN searchIndex
                      ELSE [i \in DOMAIN searchIndex |->
                               LET item == sortByScore(ScoredItems(query, searchIndex))[i]
                               IN  [title |-> item.title, id |-> item.id,
                                    file |-> item.file, type |-> item.type,
                                    level |-> item.level, content |-> item.content]]
    /\ UNCHANGED <<isSearchIndexBuilt, shows, builds, navs, content,
                   panel, hl, manifest, page, jumps, scroll>>

\* performSearch(query) is called, the index being as the calls before left it
SearchCall(query) ==
    /\ inputs < MaxSearches
    /\ inputs' = inputs + 1
    /\ lastQuery' = query
    /\ lastResults' = performSearch(query, searchIndex)
    /\ UNCHANGED <<searchIndex, isSearchIndexBuilt, shows, builds, navs, content,
                   panel, hl, manifest, page, jumps, scroll>>

NextRepeat == \E q \in RepeatQueries : SearchCall(q)

SpecRepeat == InitSearch /\ [][NextRepeat]_vars

(***************************************************************************)
(* Claims.                                                                 *)
(***************************************************************************)

\* no showDocs or buildSearchIndex call is suspended on a fetch
AllCallsFinished ==
    /\ \A s \in DOMAIN shows : shows[s].pc # "manifest"
    /\ \A b \in DOMAIN builds : builds[b].pc \notin {"manifest", "document"}

\* the entries of the index that come from file f, in index order
EntriesOf(f) == SelectSeq(searchIndex, LAMBDA e : e.file = f)

\* the entry lists one indexing of file f can produce
IndexingsOf(f) ==
    {DocumentEntries(f, Documents[f], Drawn(rnd, Documents[f])) :
        rnd \in RandomDraws(Documents[f])}

\* C1: when all buildSearchIndex calls of the session have finished, the
\* index holds the entries of every successfully fetched document exactly
\* once (no duplicated and no missing entries), and nothing else.
C1_IndexBuiltExactlyOnce ==
    (AllCallsFinished /\ \E b \in DOMAIN builds : builds[b].pc = "done")
        => \A f \in Files :
               IF \E b \in DOMAIN builds : \E k \in builds[b].indexed :
                      builds[b].files[k] = f
               THEN EntriesOf(f) \in IndexingsOf(f)
               ELSE EntriesOf(f) = <<>>

\* C2: once isSearchIndexBuilt is true, no step changes searchIndex.
C2_IndexFrozenOnceBuilt ==
    [][isSearchIndexBuilt => searchIndex' = searchIndex]_vars

\* C3: performSearch returns the empty list whenever the trimmed query has
\* fewer than 2 characters.
C3_ShortTrimmedQueryEmpty ==
    (inputs = 1 /\ Len(trim(lastQuery)) < 2) => lastResults = <<>>

\* C4: highlightSearchTerms returns a value and never raises, whatever the
\* text and the query.
C4_HighlightNeverThrows ==
    ~hl.threw

\* whether text s holds the text p somewhere (every text holds the empty one)
Contains(s, p) == \E i \in 0..(Len(s) - Len(p)) : SubSeq(s, i + 1, i + Len(p)) = p

\* whether text s begins with the text p
BeginsWith(s, p) == Len(p) <= Len(s) /\ SubSeq(s, 1, Len(p)) = p

\* the words of a query: the maximal runs without white space of more than
\* one character, each given as <<first, last>> position
WordSpans(q) ==
    {w \in (1..Len(q)) \X (1..Len(q)) :
        /\ w[1] < w[2]
        /\ \A i \in w[1]..w[2] : ~IsSpace(q[i])
        /\ (w[1] = 1 \/ IsSpace(q[w[1] - 1]))
        /\ (w[2] = Len(q) \/ IsSpace(q[w[2] + 1]))}

\* the score the table of the ranking gives an entry for a query
TableScore(entry, query) ==
    LET q == toLowerCase(query)
        title == toLowerCase(entry.title)
        snippet == toLowerCase(entry.content)
        inTitle == {w \in WordSpans(q) : Contains(title, SubSeq(q, w[1], w[2]))}
        inSnippet == {w \in WordSpans(q) : Contains(snippet, SubSeq(q, w[1], w[2]))}
    IN    (IF title = q THEN 100 ELSE 0)
        + (IF BeginsWith(title, q) THEN 50 ELSE 0)
        + (IF Contains(title, q) THEN 30 ELSE 0)
        + (IF Contains(snippet, q) THEN 20 ELSE 0)
        + 10 * Cardinality(inTitle)
        + 5 * Cardinality(inSnippet)
        + (IF entry.type = "heading" THEN 10 ELSE 0)
        + (IF entry.type = "heading" /\ entry.level = "h1" THEN 5 ELSE 0)
        + (IF entry.type = "heading" /\ entry.level = "h2" THEN 3 ELSE 0)

\* a search with a query of trimmed length >= 2 has been made
Searched == inputs = 1 /\ Len(trim(lastQuery)) >= 2

\* the entries of the index with the score performSearch gave each
Scored == SubSeq(ScoredItems(lastQuery, searchIndex), 1, Len(searchIndex))

\* C5: for every entry and every query of trimmed length >= 2 the score
\* performSearch computes is the sum the table gives, for the entries of the
\* index and for the entries returned.
C5_ScoreIsTableSum ==
    Searched =>
        LET S == Scored
        IN  /\ \A i \in DOMAIN S :
                   S[i].score = TableScore(searchIndex[i], lastQuery)
            /\ \A k \in DOMAIN lastResults :
                   lastResults[k].score = TableScore(lastResults[k], lastQuery)

\* C5 witness: a two-word query was searched; a heading whose title is the
\* query and a content entry were scored and returned.
C5_Witness ==
    /\ Searched
    /\ Cardinality(WordSpans(lastQuery)) = 2
    /\ \E k \in DOMAIN lastResults :
           /\ lastResults[k].type = "heading"
           /\ toLowerCase(lastResults[k].title) = toLowerCase(lastQuery)
           /\ lastResults[k].score >= 100 + 50 + 30 + 2 * 10 + 10
    /\ \E k \in DOMAIN lastResults :
           lastResults[k].type = "content" /\ lastResults[k].score > 0

\* the place of entry i in the ranking of the scored entries S: the number
\* of entries with a positive score that rank before it
RankOf(S, i) ==
    Cardinality({j \in DOMAIN S :
                    /\ S[j].score > 0
                    /\ \/ S[j].score > S[i].score
                       \/ S[j].score = S[i].score /\ j < i})

\* the scored entries S in ranking order: positive scores only, higher
\* scores first, equal scores in index order
Ranking(S) ==
    LET rank == SubSeq([i \in DOMAIN S |-> RankOf(S, i)], 1, Len(S))
        n == Cardinality({i \in DOMAIN rank : S[i].score > 0})
    IN  SubSeq([k \in 1..n |->
                   S[CHOOSE i \in DOMAIN S : S[i].score > 0 /\ rank[i] = k - 1]],
               1, n)

\* C6: the list performSearch returns is in non-increasing score order, and
\* entries of equal score keep their relative order of the index.
C6_SortedAndStable ==
    (inputs = 1) =>
        /\ \A k \in 1..(Len(lastResults) - 1) :
               lastResults[k].score >= lastResults[k + 1].score
        /\ LET S == Scored
               ranking == Ranking(S)
           IN  /\ Len(S) = Len(searchIndex)
               /\ Len(lastResults) <= Len(ranking)
               /\ \A k \in DOMAIN lastResults : lastResults[k] = ranking[k]

\* C6 witness: two different entries of equal score were returned next to
\* each other.
C6_Witness ==
    /\ inputs = 1
    /\ \E k \in 1..(Len(lastResults) - 1) :
           /\ lastResults[k].score = lastResults[k + 1].score
           /\ lastResults[k] # lastResults[k + 1]

\* C7: performSearch (for a query it does not reject) returns exactly
\* min(10, n) entries, n the number of entries with a positive score; each is
\* an entry of the index with its score, and no entry left out has a higher
\* score than a returned one.
C7_TopTenReturned ==
    (inputs = 1 /\ Len(lastQuery) >= 2) =>
        LET S == Scored
        IN  /\ Len(lastResults) =
                   Min(10, Cardinality({i \in DOMAIN S : S[i].score > 0}))
            /\ \A k \in DOMAIN lastResults :
                   \E i \in DOMAIN S : S[i] = lastResults[k]
            /\ \A i \in DOMAIN S : \A k \in DOMAIN lastResults :
                   S[i].score > lastResults[k].score
                       => \E l \in 1..(k - 1) : lastResults[l] = S[i]

\* C7 witness: more than ten entries matched and ten were returned.
C7_Witness ==
    /\ inputs = 1
    /\ Len(lastResults) = 10
    /\ LET S == Scored
       IN  Cardinality({i \in DOMAIN S : S[i].score > 0}) > 10

\* the two letter cases of a character
CasesOf(c) == {d \in QueryChars : LowerChar(d) = LowerChar(c)}

RECURSIVE CaseVariants(_)
\* the queries that differ from q in letter case only
CaseVariants(q) ==
    IF q = <<>> THEN {<<>>}
    ELSE {<<c>> \o v : c \in CasesOf(Head(q)), v \in CaseVariants(Tail(q))}

\* whether a query is written without capitals
IsSmall(q) == \A i \in DOMAIN q : \A j \in DOMAIN UpperCase : q[i] # UpperCase[j]

\* C8: two queries that differ only in letter case get identical results:
\* the same entries in the same order with the same scores.  Every query is
\* compared with its variant without capitals, which two queries that
\* differ in letter case only have in common.
C8_CaseInsensitive ==
    (inputs = 1) =>
        \A q \in CaseVariants(lastQuery) :
            IsSmall(q) => performSearch(q, searchIndex) = lastResults

\* C8 witness: a query with a capital letter was searched and returned
\* entries, and a query in another letter case exists.
C8_Witness ==
    /\ inputs = 1
    /\ lastResults # <<>>
    /\ \E i \in DOMAIN lastQuery : lastQuery[i] = "A"
    /\ toLowerCase(lastQuery) \in CaseVariants(lastQuery) \ {lastQuery}

\* a heading entry whose title starts with the query
IsPrefixHeading(entry, query) ==
    /\ entry.type = "heading"
    /\ BeginsWith(toLowerCase(entry.title), toLowerCase(query))

\* an entry whose title holds neither the query nor any query word
LacksTitleMatch(entry, query) ==
    LET q == toLowerCase(query)
        title == toLowerCase(entry.title)
    IN  /\ ~Contains(title, q)
        /\ \A w \in WordSpans(q) : ~Contains(title, SubSeq(q, w[1], w[2]))

\* C9: for a query of trimmed length >= 2, a heading whose title starts with
\* the query has the starts-with bonus and the word-in-title bonus of every
\* query word in its score, is returned when fewer than 10 entries rank
\* before it, and ranks above every entry without a title match.
C9_PrefixHeadingRanksFirst ==
    Searched =>
        LET S == Scored
        IN  \A i \in DOMAIN S :
                IsPrefixHeading(searchIndex[i], lastQuery) =>
                    /\ S[i].score >= 50 + 10 * Cardinality(WordSpans(lastQuery))
                    /\ RankOf(S, i) < 10 => lastResults[RankOf(S, i) + 1] = S[i]
                    /\ \A j \in DOMAIN S :
                           LacksTitleMatch(searchIndex[j], lastQuery)
                               => S[j].score < S[i].score
                    /\ \A k \in DOMAIN lastResults :
                           LacksTitleMatch(lastResults[k], lastQuery)
                               => \E l \in 1..(k - 1) : lastResults[l] = S[i]

\* C9 witness: a heading whose title starts with the query was returned
\* ahead of a returned entry without a title match.
C9_Witness ==
    /\ Searched
    /\ \E k, l \in DOMAIN lastResults :
           /\ k < l
           /\ IsPrefixHeading(lastResults[k], lastQuery)
           /\ LacksTitleMatch(lastResults[l], lastQuery)

\* a fetch of build b resolves or rejects and the build resumes
BuildResumes(b) ==
    /\ b \in DOMAIN builds
    /\ \/ BuildManifestFailed(b)
       \/ BuildManifestLoaded(b)
       \/ BuildDocumentError(b)
       \/ BuildDocumentNotOk(b)
       \/ BuildDocumentFetched(b)

\* the session in which every fetch of a build eventually resolves or rejects
FairSpec == Spec /\ \A b \in 1..MaxShowDocs : WF_vars(BuildResumes(b))

\* the document build b is fetching
FetchedFile(b) == builds[b].files[builds[b].i]

\* build b resumes from the fetch of a document in this step
ResumesFromDocument(b) == builds[b].pc = "document" /\ builds'[b] # builds[b]

\* the step of build b behind a fetched document: exactly the entries of one
\* indexing of the document are appended
IndexedStep(b) ==
    /\ builds'[b].indexed = builds[b].indexed \cup {builds[b].i}
    /\ \E entries \in IndexingsOf(FetchedFile(b)) :
           searchIndex' = searchIndex \o entries

\* the step of build b behind a failed fetch: the index is left alone
SkippedStep(b) ==
    /\ builds'[b].indexed = builds[b].indexed
    /\ searchIndex' = searchIndex

\* build b goes on to the next document, or finishes behind the last one
\* with isSearchIndexBuilt = true
GoesOn(b) ==
    IF builds[b].i < Len(builds[b].files)
    THEN /\ builds'[b].pc = "document"
         /\ builds'[b].i = builds[b].i + 1
    ELSE /\ builds'[b].pc = "done"
         /\ isSearchIndexBuilt'

\* the index a lone build leaves: the entries of the documents it fetched,
\* in manifest order, and nothing of the documents whose fetch failed
LoneBuildIndexed ==
    (Len(builds) = 1 /\ builds[1].pc = "done") =>
        /\ isSearchIndexBuilt
        /\ builds[1].i = Len(builds[1].files)
        /\ \A k \in DOMAIN builds[1].files :
               IF k \in builds[1].indexed
               THEN EntriesOf(builds[1].files[k]) \in IndexingsOf(builds[1].files[k])
               ELSE EntriesOf(builds[1].files[k]) = <<>>

\* C10: once the manifest has loaded, a document whose fetch fails adds no
\* entries, the build goes on to every other document and indexes the ones
\* it fetches, and, every fetch resolving or rejecting, the build finishes
\* with isSearchIndexBuilt set to true.
C10_FailedFetchSkipped ==
    /\ [][\A b \in DOMAIN builds :
              ResumesFromDocument(b) =>
                  /\ IndexedStep(b) \/ SkippedStep(b)
                  /\ GoesOn(b)]_vars
    /\ []LoneBuildIndexed
    /\ \A b \in 1..MaxShowDocs :
           (b \in DOMAIN builds /\ builds[b].pc = "document")
               ~> (b \in DOMAIN builds /\ builds[b].pc = "done" /\ isSearchIndexBuilt)

\* C10 witness: a build has finished with isSearchIndexBuilt true, one
\* document of its manifest failed to load and has no entry in the index,
\* another was fetched and is indexed.
C10_Witness ==
    /\ Len(builds) = 1
    /\ builds[1].pc = "done"
    /\ isSearchIndexBuilt
    /\ \E k, l \in DOMAIN builds[1].files :
           /\ k \notin builds[1].indexed
           /\ l \in builds[1].indexed
           /\ EntriesOf(builds[1].files[k]) = <<>>
           /\ EntriesOf(builds[1].files[l]) # <<>>

\* the build of the indexing pass has finished
Indexed == builds # <<>> /\ builds[1].pc = "done"

\* the Heading entries of the index, in index order
HeadingsOfIndex == SelectSeq(searchIndex, LAMBDA e : e.type = "heading")

\* the Content entries of the index, in index order
ContentsOfIndex == SelectSeq(searchIndex, LAMBDA e : e.type = "content")

\* C11: within one document no two Heading entries of the built index have
\* the same anchorId.
C11_HeadingIdsUnique ==
    Indexed =>
        LET H == HeadingsOfIndex
        IN  \A k, l \in DOMAIN H :
                (k # l /\ H[k].file = H[l].file) => H[k].id # H[l].id

\* the k-th smallest of a set of positions
Nth(S, k) == CHOOSE x \in S : Cardinality({y \in S : y < x}) = k - 1

\* the positions of the level 1-4 headings of the document
HeadingPositions == {j \in DOMAIN page : page[j].tag \in {"h1", "h2", "h3", "h4"}}

\* whether a text holds one of the fifteen keywords, in any letter case
HoldsKeyword(text) ==
    \E k \in DOMAIN Keywords : Contains(toLowerCase(text), Keywords[k])

\* the positions of the paragraphs that are to get a Content entry
EmittedParagraphs ==
    {j \in DOMAIN page :
        page[j].tag = "p" /\ (Len(page[j].text) > 100 \/ HoldsKeyword(page[j].text))}

\* the position of the nearest heading before position j, 0 when there is none
NearestHeading(j) ==
    IF \E h \in HeadingPositions : h < j
    THEN CHOOSE h \in HeadingPositions :
             h < j /\ \A g \in HeadingPositions : g < j => g <= h
    ELSE 0

\* the Heading entry emitted for the heading at position h
HeadingEntryAt(h) ==
    HeadingsOfIndex[Cardinality({g \in HeadingPositions : g <= h})]

\* the entries correspond to the headings and the emitted paragraphs
EntriesMatchBlocks ==
    /\ Len(HeadingsOfIndex) = Cardinality(HeadingPositions)
    /\ Len(ContentsOfIndex) = Cardinality(EmittedParagraphs)

\* C12: a Content entry of a paragraph with a preceding sibling heading has
\* the title and the anchorId of the Heading entry of the nearest such
\* heading.
C12_ContentInheritsHeading ==
    Indexed =>
        /\ EntriesMatchBlocks
        /\ LET C == ContentsOfIndex
               P == EmittedParagraphs
           IN  \A k \in 1..Cardinality(P) :
                   LET h == NearestHeading(Nth(P, k))
                   IN  h # 0 =>
                           /\ C[k].title = HeadingEntryAt(h).title
                           /\ C[k].id = HeadingEntryAt(h).id

\* C13: every Heading entry has a non-empty anchorId: the slug of the
\* heading text when that is non-empty, otherwise 'heading-' followed by the
\* heading's ordinal (counted from 0) among the level 1-4 headings.
C13_HeadingIdNonEmpty ==
    Indexed =>
        /\ Len(HeadingsOfIndex) = Cardinality(HeadingPositions)
        /\ LET H == HeadingsOfIndex
               P == HeadingPositions
           IN  \A k \in 1..Cardinality(P) :
                   LET text == page[Nth(P, k)].text
                   IN  /\ H[k].id # <<>>
                       /\ H[k].title = text
                       /\ H[k].id = IF Slug(text) # <<>> THEN Slug(text)
                                    ELSE <<"h", "e", "a", "d", "i", "n", "g", "-">>
                                         \o DecimalString(k - 1)

\* C13 witness: the index holds a Heading entry whose id is its slug and one
\* whose id is the positional fallback of the second heading.
C13_Witness ==
    /\ Indexed
    /\ \E k, l \in DOMAIN HeadingsOfIndex :
           /\ HeadingsOfIndex[k].id = Slug(HeadingsOfIndex[k].title)
           /\ Slug(HeadingsOfIndex[l].title) = <<>>
           /\ HeadingsOfIndex[l].id = <<"h", "e", "a", "d", "i", "n", "g", "-", "1">>

\* a lowercase word character or a hyphen
IsSlugChar(c) ==
    \/ c = "-"
    \/ c = "_"
    \/ \E i \in DOMAIN LowerCase : LowerCase[i] = c
    \/ \E i \in DOMAIN Digits : Digits[i] = c

\* only lowercase word characters and hyphens, no two hyphens in a row, no
\* hyphen at either end
WellFormedSlug(s) ==
    /\ \A i \in DOMAIN s : IsSlugChar(s[i])
    /\ \A i \in 1..(Len(s) - 1) : ~(s[i] = "-" /\ s[i + 1] = "-")
    /\ s # <<>> => (s[1] # "-" /\ s[Len(s)] # "-")

\* C14: the slug of any heading text holds only lowercase word characters
\* and hyphens, no two consecutive hyphens, and no hyphen at either end;
\* 'Getting Started!' gives 'getting-started', '???' gives the empty string
\* and 'Hello !' gives no trailing hyphen.
C14_SlugWellFormed ==
    /\ Slug(<<"G", "e", "t", "t", "i", "n", "g", " ",
              "S", "t", "a", "r", "t", "e", "d", "!">>)
           = <<"g", "e", "t", "t", "i", "n", "g", "-",
               "s", "t", "a", "r", "t", "e", "d">>
    /\ Slug(<<"?", "?", "?">>) = <<>>
    /\ Indexed =>
           /\ WellFormedSlug(Slug(<<"H", "e", "l", "l", "o", " ", "!">>))
           /\ \A j \in HeadingPositions : WellFormedSlug(Slug(page[j].text))

\* the first n characters of s
FirstChars(s, n) == [i \in 1..(IF Len(s) < n THEN Len(s) ELSE n) |-> s[i]]

\* C15: a Content entry exists for a paragraph exactly when its text is
\* longer than 100 characters or holds, in any letter case, one of the
\* fifteen keywords; each such paragraph yields exactly one Content entry,
\* in document order, and no other block yields one.
C15_ContentIffLongOrKeyword ==
    Indexed =>
        LET C == ContentsOfIndex
            P == EmittedParagraphs
        IN  /\ Len(C) = Cardinality(P)
            /\ Len(Keywords) = 15
            /\ \A k \in DOMAIN C :
                   /\ C[k].file = FileA
                   /\ C[k].content = FirstChars(page[Nth(P, k)].text, 300)

\* a document with a short keyword paragraph, a long paragraph without a
\* keyword and a short paragraph without one has been indexed
C15_Witness ==
    /\ Indexed
    /\ Len(ContentsOfIndex) = 2
    /\ \E i, j, n \in DOMAIN page :
           /\ page[i].tag = "p" /\ Len(page[i].text) <= 100
           /\ HoldsKeyword(page[i].text)
           /\ page[j].tag = "p" /\ Len(page[j].text) > 100
           /\ ~HoldsKeyword(page[j].text)
           /\ page[n].tag = "p" /\ n \notin EmittedParagraphs

\* the text s without its first occurrence of ".md"
WithoutMd(s) ==
    LET at == {i \in 1..(Len(s) - 2) :
                  s[i] = "." /\ s[i + 1] = "m" /\ s[i + 2] = "d"}
    IN  IF at = {} THEN s
        ELSE LET i == CHOOSE i \in at : \A j \in at : i <= j
             IN  [k \in 1..(Len(s) - 3) |-> IF k < i THEN s[k] ELSE s[k + 3]]

\* C16: a Content entry emitted for a paragraph with no heading among its
\* preceding siblings has the document's name (the file identifier without
\* '.md') as title and the empty string as anchorId.
C16_OrphanContentNamedByFile ==
    Indexed =>
        LET C == ContentsOfIndex
            P == EmittedParagraphs
        IN  /\ Len(C) = Cardinality(P)
            /\ \A k \in DOMAIN C :
                   NearestHeading(Nth(P, k)) = 0 =>
                       /\ C[k].title = WithoutMd(C[k].file)
                       /\ C[k].title = <<"a">>
                       /\ C[k].id = <<>>

\* a paragraph before the first heading of its document has been indexed,
\* and so has a paragraph after that heading
C16_Witness ==
    /\ Indexed
    /\ \E i, j \in EmittedParagraphs :
           /\ NearestHeading(i) = 0
           /\ NearestHeading(j) # 0

\* the position in the document of the k-th heading
HeadingAt(k) == Nth(HeadingPositions, k)

\* C17: every entry of the index has a snippet of at most 300 characters: a
\* Heading entry's snippet is the first 300 characters of the text of the
\* block right after the heading (empty when there is none), and a Content
\* entry's snippet is the first 300 characters of its paragraph.
C17_SnippetAtMost300 ==
    Indexed =>
        LET H == HeadingsOfIndex
            C == ContentsOfIndex
            P == EmittedParagraphs
        IN  /\ EntriesMatchBlocks
            /\ \A e \in DOMAIN searchIndex : Len(searchIndex[e].content) <= 300
            /\ \A k \in DOMAIN H :
                   H[k].content =
                       IF HeadingAt(k) = Len(page) THEN <<>>
                       ELSE FirstChars(page[HeadingAt(k) + 1].text, 300)
            /\ \A k \in DOMAIN C :
                   /\ Len(C[k].content) = Min(300, Len(page[Nth(P, k)].text))
                   /\ \A i \in DOMAIN C[k].content :
                          C[k].content[i] = page[Nth(P, k)].text[i]

\* a heading followed by a paragraph of more than 300 characters and a
\* heading at the end of its document have been indexed
C17_Witness ==
    /\ Indexed
    /\ \E h, l \in DOMAIN HeadingsOfIndex, c \in DOMAIN ContentsOfIndex :
           /\ HeadingAt(h) < Len(page)
           /\ Len(page[HeadingAt(h) + 1].text) > 300
           /\ Len(HeadingsOfIndex[h].content) = 300
           /\ Len(ContentsOfIndex[c].content) = 300
           /\ HeadingAt(l) = Len(page)
           /\ HeadingsOfIndex[l].content = <<>>

RECURSIVE WithoutMarkers(_, _)
\* the text s from position i on with every <mark> and </mark> left out
WithoutMarkers(s, i) ==
    IF i > Len(s) THEN <<>>
    ELSE IF i + 5 <= Len(s) /\ SubSeq(s, i, i + 5) = <<"<", "m", "a", "r", "k", ">">>
         THEN WithoutMarkers(s, i + 6)
    ELSE IF i + 6 <= Len(s)
            /\ SubSeq(s, i, i + 6) = <<"<", "/", "m", "a", "r", "k", ">">>
         THEN WithoutMarkers(s, i + 7)
    ELSE <<s[i]>> \o WithoutMarkers(s, i + 1)

\* whether the texts s and t are equal up to letter case
EqualFold(s, t) ==
    /\ Len(s) = Len(t)
    /\ \A i \in DOMAIN s : s[i] = t[i]
                           \/ \E j \in DOMAIN LowerCase :
                                  /\ {s[i], t[i]} = {LowerCase[j], UpperCase[j]}

\* the occurrences of the word w in s, in any letter case
Occurrences(s, w) ==
    {i \in 1..(Len(s) - Len(w) + 1) : EqualFold(SubSeq(s, i, i + Len(w) - 1), w)}

\* the occurrence of length n at position i of the text is wrapped, in its
\* original case, somewhere in the output
WrappedIn(out, text, i, n) ==
    Contains(out, <<"<", "m", "a", "r", "k", ">">> \o SubSeq(text, i, i + n - 1)
                  \o <<"<", "/", "m", "a", "r", "k", ">">>)

\* C18: highlightSearchTerms(text, query) wraps the case-insensitive
\* occurrences of each query word of more than one character in an emphasis
\* marker, keeps the original letter case of what it wraps, and changes
\* nothing else: removing the markers from the output gives back exactly the
\* input text, also for queries of several words.
C18_HighlightOnlyAddsMarkers ==
    (hl # NoHighlight /\ ~hl.threw) =>
        /\ WithoutMarkers(hl.value, 1) = hl.text
        /\ \A w \in WordSpans(hl.query) :
               LET word == SubSeq(hl.query, w[1], w[2])
               IN  Occurrences(hl.text, word) # {} =>
                       \E i \in Occurrences(hl.text, word) :
                           WrappedIn(hl.value, hl.text, i, Len(word))

\* the navigateToResult call j looks its anchor up in this step
LooksUp(j) == jumps[j].found = "none" /\ jumps'[j].found # "none"

\* the navigateTo call that navigateToResult call j awaits has settled
LoadSettled(j) == navs[jumps[j].nav].pc \in {"done", "failed"}

C20_EmptyIdScrollsToFallback ==
    [][\A j \in DOMAIN jumps :
          jumps[j].id = <<>> =>
              /\ ~LooksUp(j)
              /\ jumps'[j].timer = 0
              /\ jumps'[j].pc \in {"navigate", "done"}
              /\ (jumps[j].pc = "navigate" /\ jumps'[j].pc = "done") =>
                     /\ LoadSettled(j)
                     /\ scroll' = 60]_vars

\* a result without an anchor was clicked, its document loaded, and the page
\* scrolled to the fallback position
C20_Witness ==
    \E j \in DOMAIN jumps :
        /\ jumps[j].id = <<>>
        /\ jumps[j].pc = "done"
        /\ navs[jumps[j].nav].pc = "done"
        /\ scroll = 60

\* a fetch of a document is issued in this step: a navigateTo call begins
FetchIssued == Len(navs') > Len(navs)

\* the reader triggers a navigation in this step: a click on a result, or
\* the page load that runs showDocs to its navigateTo(defaultFile)
ReaderNavigates ==
    \/ Len(jumps') > Len(jumps)
    \/ \E s \in DOMAIN shows : shows[s].pc = "manifest" /\ shows'[s].pc = "done"

\* C21: when the fetch of the target document fails during a navigation,
\* the content area shows the error notice, the failed call is finished for
\* good, and no fetch of a document is issued except by a navigation the
\* reader triggers (no automatic retry).
C21_FailedNavigationNotRetried ==
    [][/\ \A n \in DOMAIN navs :
              /\ (navs[n].pc = "fetch" /\ navs'[n].pc = "failed") =>
                     content' = [kind |-> "error", file |-> navs[n].file]
              /\ navs[n].pc # "fetch" => navs'[n] = navs[n]
              /\ navs'[n].file = navs[n].file
       /\ FetchIssued =>
              /\ ReaderNavigates
              /\ Len(navs') = Len(navs) + 1]_vars

\* the document of a clicked result could not be fetched and the content
\* area shows the error notice for it
C21_Witness ==
    \E j \in DOMAIN jumps :
        /\ navs[jumps[j].nav].pc = "failed"
        /\ content = [kind |-> "error", file |-> jumps[j].file]
        /\ jumps[j].pc = "done"

\* the reader is shown the error panel
ErrorShown == content.kind = "error"

\* C22: whenever the manifest cannot be loaded for the index build, the
\* build ends with isSearchIndexBuilt false and an empty index, and the
\* reader is shown an error panel: both when showDocs cannot load it (no
\* build is started) and when buildSearchIndex itself cannot.
C22_ManifestFailureShown ==
    [][/\ \A s \in DOMAIN shows :
              (shows[s].pc = "manifest" /\ shows'[s].pc = "failed") =>
                  /\ builds' = builds
                  /\ isSearchIndexBuilt' = isSearchIndexBuilt
                  /\ searchIndex' = searchIndex
                  /\ ErrorShown'
       /\ \A b \in DOMAIN builds :
              (builds[b].pc = "manifest" /\ builds'[b].pc = "failed") =>
                  /\ (Len(builds) = 1 => (~isSearchIndexBuilt' /\ searchIndex' = <<>>))
                  /\ ErrorShown']_vars

\* showDocs call s reaches its buildSearchIndex() call in this step
BuildCalled(s) == shows[s].pc = "manifest" /\ shows'[s].pc = "done"

\* build call b has a fetch in flight
BuildFetching(b) == builds[b].pc \in {"manifest", "document"}

\* C23: a call to buildSearchIndex made while isSearchIndexBuilt is true
\* issues no fetch, then or later, and leaves searchIndex and
\* isSearchIndexBuilt unchanged.
C23_BuiltIndexNotRebuilt ==
    [][/\ \A s \in DOMAIN shows :
              (BuildCalled(s) /\ isSearchIndexBuilt) =>
                  /\ Len(builds') = Len(builds) + 1
                  /\ builds'[Len(builds')].pc = "returned"
                  /\ searchIndex' = searchIndex
                  /\ isSearchIndexBuilt'
       /\ \A b \in DOMAIN builds :
              builds[b].pc = "returned" =>
                  /\ builds'[b] = builds[b]
                  /\ ~BuildFetching(b)]_vars

\* buildSearchIndex was called with the index built and entries in it
C23_Witness ==
    /\ isSearchIndexBuilt
    /\ searchIndex # <<>>
    /\ \E b \in DOMAIN builds : builds[b].pc = "returned"

\* C24: performSearch is a pure function of the query and the index: a call
\* leaves searchIndex (its entries and their order) and isSearchIndexBuilt
\* unchanged, and a call with the same query as the call before, on the
\* same index, returns the same list.
C24_SearchIsPure ==
    [][inputs' = inputs + 1 =>
           /\ searchIndex' = searchIndex
           /\ isSearchIndexBuilt' = isSearchIndexBuilt
           /\ (inputs >= 1 /\ lastQuery' = lastQuery) => lastResults' = lastResults]_vars

\* performSearch was called twice on an index with entries and returned
\* results, and a further call with the last query would return them again
C24_Witness ==
    /\ inputs = 2
    /\ searchIndex # <<>>
    /\ Len(lastResults) >= 2
    /\ lastResults = performSearch(lastQuery, searchIndex)

\* the place of file f among the documents of the manifest, folders
\* flattened in order
ManifestRank(f) ==
    LET files == filesToIndex(manifest)
    IN  CHOOSE k \in DOMAIN files : files[k] = f /\ \A l \in 1..(k - 1) : files[l] # f

\* C25: in the built index all entries of a document that comes earlier in
\* the manifest precede all entries of a later document, and within one
\* document the entries are in emission order: the Heading entries in
\* document order, then the Content entries in document order.
C25_IndexInManifestOrder ==
    (AllCallsFinished /\ isSearchIndexBuilt) =>
        /\ \A i, j \in DOMAIN searchIndex :
               i < j =>
                   /\ ManifestRank(searchIndex[i].file) <= ManifestRank(searchIndex[j].file)
                   /\ (searchIndex[i].file = searchIndex[j].file
                       /\ searchIndex[j].type = "heading") =>
                          searchIndex[i].type = "heading"
        /\ \A f \in Files : EntriesOf(f) # <<>> => EntriesOf(f) \in IndexingsOf(f)

\* a build is in progress: the flag is not set and a build call still has
\* the manifest or documents to fetch
BuildInProgress ==
    /\ ~isSearchIndexBuilt
    /\ \E b \in DOMAIN builds : builds[b].pc \in {"manifest", "document"}

\* the input listener calls performSearch in this step
SearchRuns == inputs' = inputs + 1 /\ Len(lastQuery') >= 2

\* C26: every search the reader triggers scans a completely built index: no
\* performSearch call reads searchIndex while a build is still in progress.
C26_SearchOnlyAfterBuild ==
    [][SearchRuns => ~BuildInProgress]_vars

\* the build calls that have a document fetch in flight
DocumentFetches == {b \in DOMAIN builds : builds[b].pc = "document"}

\* C27: while the index is being built, at most one document fetch issued
\* by the index build is in flight at any moment; the fetch of the next
\* document starts only after the previous document has been fetched and
\* indexed or skipped.
C27_OneDocumentFetchInFlight ==
    Cardinality(DocumentFetches) <= 1

\* timers fire: a highlight's 1500 ms timer that is pending is run
TimerFires(j) == j \in DOMAIN jumps /\ GlowTimeout(j)

FairNavigate == SpecNavigate /\ \A j \in 1..MaxJumps : WF_vars(TimerFires(j))

\* the navigateToResult call j has highlighted its element and not yet
\* reset it
Glowing(j) == j \in DOMAIN jumps /\ jumps[j].pc = "glow"

\* C28: every transient background highlight that navigateToResult applies
\* to a found anchor element is eventually removed, by the timer of 1500 ms
\* set when it was applied, whatever other navigations happen in between.
C28_HighlightRemoved ==
    \A j \in 1..MaxJumps :
        (Glowing(j) /\ jumps[j].timer = 1500)
            ~> (j \in DOMAIN jumps /\ jumps[j].pc = "done" /\ jumps[j].found = "yes")

\* an element is highlighted while another navigation is still loading
C28_Witness ==
    \E j, l \in DOMAIN jumps :
        /\ Glowing(j)
        /\ jumps[l].pc = "navigate"
        /\ navs[jumps[l].nav].pc = "fetch"
        /\ content.kind = "loading"

\* every navigateTo call has fetched and mounted its document
AllNavigationsLoaded == \A n \in DOMAIN navs : navs[n].pc = "done"

\* the document requested last is the one mounted
LastRequestMounted ==
    content = [kind |-> "document", file |-> navs[Len(navs)].file]

\* C29: when several navigations are requested and their fetches complete in
\* any order, the document mounted after all of them have finished is the
\* one requested last, and the anchor lookup of a navigateToResult is made
\* against its own target document, not against a document mounted by a
\* later navigation.
C29_LastNavigationWins ==
    [][/\ AllNavigationsLoaded' => LastRequestMounted'
       /\ \A j \in DOMAIN jumps :
              (LooksUp(j) /\ AllNavigationsLoaded) =>
                  content = [kind |-> "document", file |-> jumps[j].file]]_vars

\* whether text s holds the text w somewhere, letter case aside
HoldsFold(s, w) == Occurrences(s, w) # {}

\* the entry matches the query textually: its title or its snippet holds
\* the whole query or one of the query's words
MatchesTextually(entry, q) ==
    \/ HoldsFold(entry.title, q)
    \/ HoldsFold(entry.content, q)
    \/ \E w \in WordSpans(q) :
           \/ HoldsFold(entry.title, SubSeq(q, w[1], w[2]))
           \/ HoldsFold(entry.content, SubSeq(q, w[1], w[2]))

\* C30: every entry performSearch returns matches the query textually: its
\* title or its snippet contains, in any letter case, the whole query or at
\* least one query word; an entry that contains none of them is never
\* returned, whatever its kind or heading level.
C30_ResultsMatchQuery ==
    \A k \in DOMAIN lastResults : MatchesTextually(lastResults[k], lastQuery)

====
